---- MODULE Spec2Model ----
(***************************************************************************)
(* Model of the ML-based imputation pipeline of                            *)
(* YoutubeTrends_DataEngineering/notebooks/DataCleaning.py:                *)
(* detect_column_types, train_imputation_model, impute_missing_values and  *)
(* fill_null_ML, together with the model directory they share.             *)
(*                                                                         *)
(* A dataframe is a table of NCols columns (named by their position in the *)
(* natural column order) and NRows rows.  A cell is a record with a        *)
(* missing flag and a value; text labels are coded as small integers.      *)
(* Up to two invocations of fill_null_ML run against one model directory.  *)
(***************************************************************************)
EXTENDS Integers, Sequences, FiniteSets, TLC

\* ---------------------------------------------------------------- bounds
NRows == 12
NCols == 3

\* ------------------------------------------------------ program constants
\* "if X.shape[0] < 10" in train_imputation_model
MinTrainRows == 10

Rows == 1..NRows
Cols == 1..NCols
Invs == {1, 2}

\* The largest number of missing cells a column of an input gets: one more
\* than what still leaves MinTrainRows labelled rows.
MaxMissing == NRows - MinTrainRows + 1

DTypes == {"number", "object", "category", "datetime"}

\* ------------------------------------------------------------ dataframes
NaN == [isna |-> TRUE, val |-> 0]
Val(x) == [isna |-> FALSE, val |-> x]

\* The content of the populated cells of the inputs: numbers in -1..1 (so
\* that a regressor can predict below zero), two labels of unequal
\* frequency for text columns, a timestamp for datetime columns.
CellValue(dt, c, r) ==
    IF dt = "number" THEN ((r + c) % 3) - 1
    ELSE IF dt = "datetime" THEN r
    ELSE IF r <= 2 THEN 2 ELSE 1

\* An input dataframe: column c has dtype dt[c] and its last k[c] rows
\* missing.  The rows that every column misses are entirely empty.  A
\* column of the inputs is complete, misses two cells, or misses so many
\* that fewer than MinTrainRows labelled rows are left.
MkFrame(dt, k) ==
    [dtype |-> dt,
     cell  |-> [c \in Cols |-> [r \in Rows |->
                  IF r > NRows - k[c] THEN NaN ELSE Val(CellValue(dt[c], c, r))]]]

MissingCounts == {0, 2, MaxMissing}
Frames == {MkFrame(dt, k) : dt \in [Cols -> DTypes], k \in [Cols -> MissingCounts]}

isnull(d, c) == {r \in Rows : d.cell[c][r].isna}
notna(d, c) == Rows \ isnull(d, c)

is_numeric_dtype(dt) == dt = "number"
is_object_dtype(dt) == dt = "object"

\* detect_column_types: select_dtypes(include=['object','category']) and
\* select_dtypes(include=['number'])
detect_column_types(d) ==
    [categorical |-> {c \in Cols : d.dtype[c] \in {"object", "category"}},
     numeric     |-> {c \in Cols : d.dtype[c] = "number"}]

\* df.dropna(axis=0, how='all'): the rows that survive
dropna_all(d) == {r \in Rows : \E c \in Cols : ~d.cell[c][r].isna}

\* features = [col for col in df.columns if col != target_column
\*             and df[col].isnull().sum() == 0], on the frame without its
\* entirely empty rows
Features(d, target) ==
    {c \in Cols \ {target} : isnull(d, c) \cap dropna_all(d) = {}}

\* mask = df[target_column].notna(), on the frame without its empty rows
TrainRows(d, target) == notna(d, target) \cap dropna_all(d)

TooFewRows_9(n) == n < MinTrainRows - 1
\* if X.shape[0] < 10: return None, None
TooFewRows(n) == n < MinTrainRows

\* The columns the ColumnTransformer keeps (remainder is dropped)
num_features(d, target) == Features(d, target) \cap detect_column_types(d).numeric
cat_features(d, target) == Features(d, target) \cap detect_column_types(d).categorical

\* pipeline.fit raises when the preprocessor hands the forest no column
FitRaises(d, target) == num_features(d, target) \cup cat_features(d, target) = {}

\* train_test_split(X, y, test_size=0.2): n_test = ceil(0.2 * n)
NTest(n) == (n + 4) \div 5
NTrain(n) == n - NTest(n)

\* The labels and their counts among the labelled rows
LabelsOf(d, target, rows) == {d.cell[target][r].val : r \in rows}
CountOf(d, target, rows, S) == Cardinality({r \in rows : d.cell[target][r].val \in S})

\* The label sets that some choice of NTrain rows out of the labelled rows
\* can have: the split is a fixed-seed shuffle, modelled as any subset.
TrainLabelSets(d, target) ==
    LET rows == TrainRows(d, target)
        n    == NTrain(Cardinality(rows))
    IN {S \in SUBSET LabelsOf(d, target, rows) :
          /\ S # {}
          /\ Cardinality(S) <= n
          /\ CountOf(d, target, rows, S) >= n}

Min(S) == CHOOSE x \in S : \A y \in S : x <= y
Max(S) == CHOOSE x \in S : \A y \in S : x >= y

\* ------------------------------------------------------------- artifacts
NoArtifact == [writer |-> -1, kind |-> "none", features |-> {}, num |-> {},
               classes |-> {}, lo |-> 0, hi |-> 0]

\* The pipelines train_imputation_model can fit for the target: a
\* regressor for a numeric target (its predictions lie in the hull of the
\* training targets), a classifier otherwise (it predicts a training label)
FittedPipelines(d, target, who) ==
    LET rows == TrainRows(d, target)
    IN IF is_numeric_dtype(d.dtype[target])
       THEN {[writer |-> who, kind |-> "regression",
              features |-> Features(d, target), num |-> num_features(d, target),
              classes |-> {},
              lo |-> Min(LabelsOf(d, target, rows)),
              hi |-> Max(LabelsOf(d, target, rows))]}
       ELSE {[writer |-> who, kind |-> "classification",
              features |-> Features(d, target), num |-> num_features(d, target),
              classes |-> S, lo |-> 0, hi |-> 0] : S \in TrainLabelSets(d, target)}

\* An artifact left in the model directory by an earlier run on a table of
\* the same schema
StaleArtifact(d, c) ==
    [writer |-> 0,
     kind |-> IF is_numeric_dtype(d.dtype[c]) THEN "regression" ELSE "classification",
     features |-> Cols \ {c},
     num |-> (Cols \ {c}) \cap detect_column_types(d).numeric,
     classes |-> IF is_numeric_dtype(d.dtype[c]) THEN {} ELSE {1},
     lo |-> IF is_numeric_dtype(d.dtype[c]) THEN -1 ELSE 0,
     hi |-> 0]

SaveModel_keep(dir, c, art) == IF dir[c] = NoArtifact THEN [dir EXCEPT ![c] = art] ELSE dir
\* joblib.dump(pipeline, model_path): overwrites the artifact of the column
SaveModel(dir, c, art) == [dir EXCEPT ![c] = art]

\* ------------------------------------------------- impute_missing_values
ImputeMask_rest(d, col) == isnull(d, col) \ {Min(isnull(d, col) \cup {NRows})}
\* mask = df[target_column].isnull()
ImputeMask(d, col) == isnull(d, col)

Clamp_none(dt, v) == v
\* if is_numeric_dtype(df[target_column]): np.maximum(0, predicted_values)
Clamp(dt, v) == IF is_numeric_dtype(dt) /\ v < 0 THEN 0 ELSE v

\* What pipeline.predict can return for one row
PredSet(art) == IF art.kind = "regression" THEN art.lo..art.hi ELSE art.classes

\* The prediction vectors for the masked rows (one dummy vector when the
\* function returns before predicting)
PredChoices(d, col, dir) ==
    IF dir[col] = NoArtifact \/ ImputeMask(d, col) = {}
    THEN {[r \in ImputeMask(d, col) |-> 0]}
    ELSE [ImputeMask(d, col) -> PredSet(dir[col])]

\* X_missing = df.loc[mask, feature_names] holds a NaN in a column the
\* StandardScaler passes on to the forest: predict raises ValueError in the
\* scikit-learn releases whose forests reject NaN and predicts in those
\* whose forests accept it.  A NaN in a one-hot encoded column is encoded
\* as an unknown category (all zeros) and never raises.
PredictMayRaise(d, col, dir) ==
    /\ dir[col] # NoArtifact
    /\ \E r \in ImputeMask(d, col), f \in dir[col].num : d.cell[f][r].isna

impute_missing_values_lost(d, col, dir, pv) == d
impute_missing_values_allcols(d, col, dir, pv) ==
    IF dir[col] = NoArtifact THEN d
    ELSE IF ImputeMask(d, col) = {} THEN d
    ELSE [d EXCEPT !.cell = [c \in Cols |-> [r \in Rows |->
             IF r \in ImputeMask(d, col)
             THEN Val(Clamp(d.dtype[col], pv[r])) ELSE d.cell[c][r]]]]
\* The frame impute_missing_values returns, pv being the predictions
impute_missing_values(d, col, dir, pv) ==
    IF dir[col] = NoArtifact THEN d
    ELSE IF ImputeMask(d, col) = {} THEN d
    ELSE [d EXCEPT !.cell[col] = [r \in Rows |->
             IF r \in ImputeMask(d, col)
             THEN Val(Clamp(d.dtype[col], pv[r])) ELSE d.cell[col][r]]]

\* ----------------------------------------------------------- fill_null_ML
DfCopy_alias(h, r) == r
\* df = df.copy(): a fresh object
DfCopy(h, r) == Cardinality(DOMAIN h) + 1

\* target_cols = df.columns[df.isnull().sum() > 0]
target_cols(d) == {c \in Cols : isnull(d, c) # {}}

Eligible_categorical(d, c) ==
    is_numeric_dtype(d.dtype[c]) \/ c \in detect_column_types(d).categorical
\* is_numeric_dtype(df[col]) or is_object_dtype(df[col])
Eligible(d, c) == is_numeric_dtype(d.dtype[c]) \/ is_object_dtype(d.dtype[c])

RECURSIVE ColumnsInOrder(_, _)
ColumnsInOrder(S, c) ==
    IF c > NCols THEN <<>>
    ELSE (IF c \in S THEN <<c>> ELSE <<>>) \o ColumnsInOrder(S, c + 1)

\* eligible_cols, in the natural column order
EligibleCols(d) == ColumnsInOrder({c \in target_cols(d) : Eligible(d, c)}, 1)

NextPcAfterTrain_always(model_is_none) == "impute"
\* model, _ = train_imputation_model(...); if model is not None: impute
NextPcAfterTrain(model_is_none) == IF model_is_none THEN "loop" ELSE "impute"

VARIABLES
    heap,            \* object id -> dataframe
    ref,             \* per invocation: the object its variable df refers to
    orig,            \* per called invocation: the caller's dataframe at the call
    modelDir,        \* column name -> artifact in the model directory
    pc,              \* per invocation: idle, ready, loop, impute, done, raised
    eligible_cols,   \* per invocation: the list fill_null_ML iterates over
    pos,             \* per invocation: index of the current column in it
    trainCount,      \* per invocation and column: calls of train_imputation_model
    imputeCount,     \* per invocation and column: calls of impute_missing_values
    modelRet,        \* per invocation and column: train returned a pipeline
    trainedFeatures, \* per invocation and column: the feature list of its pipeline
    imputedBefore,   \* per invocation and column: columns imputed before its training
    loaded,          \* per invocation and column: writer of the artifact joblib.load read
    nullFeatAtImpute \* per invocation and column: a feature column had a NaN at impute time

vars == <<heap, ref, orig, modelDir, pc, eligible_cols, pos, trainCount,
          imputeCount, modelRet, trainedFeatures, imputedBefore, loaded,
          nullFeatAtImpute>>

logs == <<trainCount, imputeCount, modelRet, trainedFeatures, imputedBefore,
          loaded, nullFeatAtImpute>>

NotLoaded == -2

CallerObj(i) == i
df(i) == heap[ref[i]]
cur(i) == eligible_cols[i][pos[i]]

\* The model directory before the run: empty, or holding artifacts of an
\* earlier run for every column
ModelDirs(d) == {[c \in Cols |-> NoArtifact], [c \in Cols |-> StaleArtifact(d, c)]}

InitLogs ==
    /\ eligible_cols = [i \in Invs |-> <<>>]
    /\ pos = [i \in Invs |-> 1]
    /\ trainCount = [i \in Invs |-> [c \in Cols |-> 0]]
    /\ imputeCount = [i \in Invs |-> [c \in Cols |-> 0]]
    /\ modelRet = [i \in Invs |-> [c \in Cols |-> FALSE]]
    /\ trainedFeatures = [i \in Invs |-> [c \in Cols |-> {}]]
    /\ imputedBefore = [i \in Invs |-> [c \in Cols |-> {}]]
    /\ loaded = [i \in Invs |-> [c \in Cols |-> NotLoaded]]
    /\ nullFeatAtImpute = [i \in Invs |-> [c \in Cols |-> FALSE]]

\* One invocation of fill_null_ML on any input frame
Init ==
    /\ \E f \in Frames :
         /\ heap = (1 :> f)
         /\ orig = (1 :> f)
         /\ modelDir \in ModelDirs(f)
    /\ ref = [i \in Invs |-> CallerObj(i)]
    /\ pc = [i \in Invs |-> IF i = 1 THEN "ready" ELSE "idle"]
    /\ InitLogs

\* fill_null_ML up to the loop: copy, select the eligible columns
Call(i) ==
    /\ pc[i] = "ready"
    /\ LET new == DfCopy(heap, ref[i])
       IN /\ heap' = IF new \in DOMAIN heap THEN heap ELSE heap @@ (new :> heap[ref[i]])
          /\ ref' = [ref EXCEPT ![i] = new]
          /\ eligible_cols' = [eligible_cols EXCEPT ![i] = EligibleCols(heap[ref[i]])]
    /\ pc' = [pc EXCEPT ![i] = "loop"]
    /\ UNCHANGED <<orig, modelDir, pos, logs>>

AtTrain(i) == pc[i] = "loop" /\ pos[i] <= Len(eligible_cols[i])

LogTrain(i, ok) ==
    /\ trainCount' = [trainCount EXCEPT ![i][cur(i)] = @ + 1]
    /\ modelRet' = [modelRet EXCEPT ![i][cur(i)] = ok]
    /\ trainedFeatures' = [trainedFeatures EXCEPT ![i][cur(i)] =
                              IF ok THEN Features(df(i), cur(i)) ELSE @]
    /\ imputedBefore' = [imputedBefore EXCEPT ![i][cur(i)] =
                              {c \in Cols : imputeCount[i][c] > 0}]

\* train_imputation_model returns (None, None): too few labelled rows
TrainSkip(i) ==
    /\ AtTrain(i)
    /\ TooFewRows(Cardinality(TrainRows(df(i), cur(i))))
    /\ LogTrain(i, FALSE)
    /\ pc' = [pc EXCEPT ![i] = NextPcAfterTrain(TRUE)]
    /\ pos' = [pos EXCEPT ![i] = IF pc'[i] = "loop" THEN @ + 1 ELSE @]
    /\ UNCHANGED <<heap, ref, orig, modelDir, eligible_cols, imputeCount, loaded,
                   nullFeatAtImpute>>

\* pipeline.fit raises: the exception leaves fill_null_ML
TrainFail(i) ==
    /\ AtTrain(i)
    /\ ~TooFewRows(Cardinality(TrainRows(df(i), cur(i))))
    /\ FitRaises(df(i), cur(i))
    /\ LogTrain(i, FALSE)
    /\ pc' = [pc EXCEPT ![i] = "raised"]
    /\ UNCHANGED <<heap, ref, orig, modelDir, eligible_cols, pos, imputeCount, loaded,
                   nullFeatAtImpute>>

\* train_imputation_model fits, saves and returns the pipeline
TrainFit(i) ==
    /\ AtTrain(i)
    /\ ~TooFewRows(Cardinality(TrainRows(df(i), cur(i))))
    /\ ~FitRaises(df(i), cur(i))
    /\ \E art \in FittedPipelines(df(i), cur(i), i) :
         modelDir' = SaveModel(modelDir, cur(i), art)
    /\ LogTrain(i, TRUE)
    /\ pc' = [pc EXCEPT ![i] = NextPcAfterTrain(FALSE)]
    /\ UNCHANGED <<heap, ref, orig, eligible_cols, pos, imputeCount, loaded,
                   nullFeatAtImpute>>

LogImpute(i) ==
    /\ imputeCount' = [imputeCount EXCEPT ![i][cur(i)] = @ + 1]
    /\ loaded' = [loaded EXCEPT ![i][cur(i)] = modelDir[cur(i)].writer]
    /\ nullFeatAtImpute' = [nullFeatAtImpute EXCEPT ![i][cur(i)] =
          \E f \in modelDir[cur(i)].features : isnull(df(i), f) # {}]

\* impute_missing_values loads the artifact, predicts and writes
ImputeWrite(i) ==
    /\ pc[i] = "impute"
    /\ \E pv \in PredChoices(df(i), cur(i), modelDir) :
         heap' = [heap EXCEPT ![ref[i]] =
                     impute_missing_values(df(i), cur(i), modelDir, pv)]
    /\ LogImpute(i)
    /\ pc' = [pc EXCEPT ![i] = "loop"]
    /\ pos' = [pos EXCEPT ![i] = @ + 1]
    /\ UNCHANGED <<ref, orig, modelDir, eligible_cols, trainCount, modelRet,
                   trainedFeatures, imputedBefore>>

\* pipeline.predict raises on a NaN feature: the exception leaves fill_null_ML
ImputeFail(i) ==
    /\ pc[i] = "impute"
    /\ PredictMayRaise(df(i), cur(i), modelDir)
    /\ loaded' = [loaded EXCEPT ![i][cur(i)] = modelDir[cur(i)].writer]
    /\ pc' = [pc EXCEPT ![i] = "raised"]
    /\ UNCHANGED <<heap, ref, orig, modelDir, eligible_cols, pos, trainCount,
                   imputeCount, modelRet, trainedFeatures, imputedBefore,
                   nullFeatAtImpute>>

\* return df
Return(i) ==
    /\ pc[i] = "loop"
    /\ pos[i] > Len(eligible_cols[i])
    /\ pc' = [pc EXCEPT ![i] = "done"]
    /\ UNCHANGED <<heap, ref, orig, modelDir, eligible_cols, pos, logs>>

Next ==
    \/ \E i \in Invs : Call(i)
    \/ \E i \in Invs : TrainSkip(i)
    \/ \E i \in Invs : TrainFail(i)
    \/ \E i \in Invs : TrainFit(i)
    \/ \E i \in Invs : ImputeWrite(i)
    \/ \E i \in Invs : ImputeFail(i)
    \/ \E i \in Invs : Return(i)

Spec == Init /\ [][Next]_vars

\* Two invocations of fill_null_ML that run concurrently on one model
\* directory, both on the same table (the pipeline started twice on one CSV).
RaceSchema == [c \in Cols |-> IF c = 1 THEN "object"
                              ELSE IF c = NCols THEN "number" ELSE "datetime"]
RaceMissing == {k \in [Cols -> MissingCounts] :
                  /\ k[1] # 0
                  /\ \A c \in Cols : c > 1 => k[c] = k[NCols]}
RaceFrames == {MkFrame(RaceSchema, k) : k \in RaceMissing}

InitRace ==
    /\ \E f \in RaceFrames :
         /\ heap = (1 :> f) @@ (2 :> f)
         /\ orig = (1 :> f) @@ (2 :> f)
         /\ modelDir \in ModelDirs(f)
    /\ ref = [i \in Invs |-> CallerObj(i)]
    /\ pc = [i \in Invs |-> "ready"]
    /\ InitLogs

SpecRace == InitRace /\ [][Next]_vars

\* ================================================================ claims
Called == DOMAIN orig
Other(i) == CHOOSE j \in Invs : j # i
ColumnSet(seq) == {seq[n] : n \in 1..Len(seq)}
NonMissingCells(d) == {<<c, r>> \in Cols \X Rows : ~d.cell[c][r].isna}
Labelled(d, c) == Cardinality(Rows \ {r \in Rows : d.cell[c][r].isna})
Written(i, c) == df(i).cell[c] # orig[i].cell[c]
FilledRows(i, c) == {r \in Rows : orig[i].cell[c][r].isna /\ ~df(i).cell[c][r].isna}

\* C1: the frame fill_null_ML works on never has fewer non-missing cells
\* than the input, and a column without missing values in the input keeps
\* exactly its values.
C1_NoLossAndCompleteColumnsKept ==
    \A i \in Called :
       /\ Cardinality(NonMissingCells(df(i))) >= Cardinality(NonMissingCells(orig[i]))
       /\ \A c \in Cols :
            (\A r \in Rows : ~orig[i].cell[c][r].isna) => df(i).cell[c] = orig[i].cell[c]

C1_Witness ==
    /\ pc[1] = "done"
    /\ \E c \in Cols : FilledRows(1, c) # {}
    /\ \E c \in Cols : \A r \in Rows : ~orig[1].cell[c][r].isna

\* C2: a column with fewer than 10 non-missing rows is unchanged by
\* fill_null_ML, whatever the model directory holds.
C2_TooFewLabelledUnchanged ==
    \A i \in Called : \A c \in Cols :
       Labelled(orig[i], c) < 10 => df(i).cell[c] = orig[i].cell[c]

C2_Witness ==
    /\ pc[1] = "done"
    /\ \E c \in Cols :
         /\ Labelled(orig[1], c) < 10
         /\ orig[1].dtype[c] \in {"number", "object"}
         /\ trainCount[1][c] = 1
         /\ modelDir[c].writer = 0

\* C3: a column is written by imputation only if a model was trained for
\* it and every feature column of that model has no missing value in any
\* row of the dataset at the moment of imputation.
C3_ImputedOnlyWithFullFeatures ==
    \A i \in Called : \A c \in Cols :
       Written(i, c) => modelRet[i][c] /\ ~nullFeatAtImpute[i][c]

\* C4: when fill_null_ML returns, every column of dtype number or object
\* that had a missing value and at least 10 labelled rows has no missing
\* value left, and the cells filled in an object column hold labels that
\* occurred in the non-missing cells of that column.
C4_TrainableColumnsFilled ==
    \A i \in Called : pc[i] = "done" =>
       \A c \in Cols :
          (/\ orig[i].dtype[c] \in {"number", "object"}
           /\ \E r \in Rows : orig[i].cell[c][r].isna
           /\ Labelled(orig[i], c) >= 10)
          => /\ \A r \in Rows : ~df(i).cell[c][r].isna
             /\ orig[i].dtype[c] = "object" =>
                  \A r \in FilledRows(i, c) :
                     \E r2 \in Rows : /\ ~orig[i].cell[c][r2].isna
                                      /\ orig[i].cell[c][r2].val = df(i).cell[c][r].val

C4_Witness ==
    /\ pc[1] = "done"
    /\ \E c \in Cols : orig[1].dtype[c] = "object" /\ FilledRows(1, c) # {}
                       /\ Labelled(orig[1], c) >= 10

\* C5: every value imputation writes into a numeric column is >= 0.
C5_NumericWritesNonNegative ==
    \A i \in Called : \A c \in Cols :
       orig[i].dtype[c] = "number" =>
          \A r \in FilledRows(i, c) : df(i).cell[c][r].val >= 0

C5_Witness ==
    \E c \in Cols :
       /\ orig[1].dtype[c] = "number"
       /\ modelDir[c].writer = 1 /\ modelDir[c].lo < 0
       /\ \E r \in FilledRows(1, c) : df(1).cell[c][r].val = 0

\* C6 as claimed: the targets are exactly the columns with a missing value
\* whose dtype is numeric or text/categorical (object or category, the
\* dtypes detect_column_types calls categorical).
C6_TargetsAreNumericOrCategorical ==
    \A i \in Called : pc[i] \notin {"idle", "ready"} =>
       ColumnSet(eligible_cols[i]) =
          {c \in Cols : /\ \E r \in Rows : orig[i].cell[c][r].isna
                        /\ orig[i].dtype[c] \in {"number", "object", "category"}}

\* C6 as amended: the targets are exactly the columns with a missing value
\* whose dtype is number or object; any other column, a category column
\* included, is never trained for and never written.
C6_TargetsAreNumericOrObject ==
    \A i \in Called : pc[i] \notin {"idle", "ready"} =>
       LET T == {c \in Cols : /\ \E r \in Rows : orig[i].cell[c][r].isna
                              /\ orig[i].dtype[c] \in {"number", "object"}}
       IN /\ ColumnSet(eligible_cols[i]) = T
          /\ \A c \in Cols \ T : /\ trainCount[i][c] = 0
                                 /\ imputeCount[i][c] = 0
                                 /\ df(i).cell[c] = orig[i].cell[c]

C6_Witness ==
    /\ pc[1] = "done"
    /\ \E c \in Cols : /\ orig[1].dtype[c] = "category"
                       /\ Labelled(orig[1], c) >= 10
                       /\ Labelled(orig[1], c) < NRows
                       /\ Features(orig[1], c) # {}
                       /\ trainCount[1][c] = 0
    /\ \E c \in Cols : FilledRows(1, c) # {}

\* C7: the object the caller passed in is never mutated; the writes land
\* in the copy.
C7_CallerInputUntouched ==
    \A i \in Called : heap[CallerObj(i)] = orig[i]

C7_Witness ==
    /\ pc[1] = "done"
    /\ ref[1] # CallerObj(1)
    /\ Cardinality({c \in Cols : FilledRows(1, c) # {}}) >= 2

C9_OnceAndInOrder ==
    \A i \in Called :
       /\ \A c \in Cols :
            /\ trainCount[i][c] <= 1
            /\ imputeCount[i][c] <= 1
            /\ imputeCount[i][c] = 1 => trainCount[i][c] = 1 /\ modelRet[i][c]
            /\ c \notin ColumnSet(eligible_cols[i]) => trainCount[i][c] = 0
       /\ pc[i] = "impute" => trainCount[i][cur(i)] = 1 /\ modelRet[i][cur(i)]
                              /\ imputeCount[i][cur(i)] = 0
       /\ pc[i] = "done" =>
            \A c \in ColumnSet(eligible_cols[i]) : trainCount[i][c] = 1

C9_Witness ==
    /\ pc[1] = "done"
    /\ \E c \in Cols : trainCount[1][c] = 1 /\ imputeCount[1][c] = 1
    /\ \E c \in Cols : trainCount[1][c] = 1 /\ imputeCount[1][c] = 0

\* C10: the impute step loads the artifact that is in the model directory
\* under the column's name.  It is never an artifact of an earlier run; it
\* is the one this invocation wrote unless a concurrent invocation trained
\* the same column, and always its own while the other invocation has not
\* started.
C10_LoadsOwnUnlessConcurrentWriter ==
    \A i \in Called : \A c \in Cols :
       loaded[i][c] # NotLoaded =>
          /\ loaded[i][c] \in Invs
          /\ loaded[i][c] # i => trainCount[loaded[i][c]][c] = 1 /\ modelRet[loaded[i][c]][c]
          /\ pc[Other(i)] \in {"idle", "ready"} => loaded[i][c] = i

C10_Witness ==
    \E c \in Cols :
       /\ loaded[1][c] = 2
       /\ modelRet[1][c]
       /\ imputeCount[1][c] = 1

====
